---- MODULE Spec2Model ----
(***************************************************************************)
(* Todo list front end: the App view component (src/src/App.jsx) and the  *)
(* REST client it calls (src/src/api/todoApi.js).                          *)
(*                                                                         *)
(* Encoding of JavaScript values:                                          *)
(*   - a string that the code trims, truncates or searches is a sequence   *)
(*     of pieces (characters or fixed texts); '' is <<>>;                  *)
(*   - an optional value (undefined / null / missing field) is <<>>, a     *)
(*     present value v is <<v>>;                                           *)
(*   - a JSON object is a record holding exactly the fields it has.        *)
(***************************************************************************)
EXTENDS Integers, Sequences, FiniteSets, TLC

\* ------------------------------------------------------------------------
\* Bounds of the model
\* ------------------------------------------------------------------------
\* number of client calls the user starts in one session, after the mount
MaxCalls == 2

\* ------------------------------------------------------------------------
\* Program constants
\* ------------------------------------------------------------------------
TruncLen == 200

ApiBaseUrl == "http://localhost:5000/todos"

Undefined == <<>>
Some(v) == <<v>>

Min(a, b) == IF a < b THEN a ELSE b

\* ------------------------------------------------------------------------
\* String helpers (String.prototype.trim / includes)
\* ------------------------------------------------------------------------
Whitespace == {" "}

RECURSIVE TrimStart(_)
TrimStart(s) ==
  IF s # <<>> /\ Head(s) \in Whitespace THEN TrimStart(Tail(s)) ELSE s

RECURSIVE TrimEnd(_)
TrimEnd(s) ==
  IF s # <<>> /\ s[Len(s)] \in Whitespace
  THEN TrimEnd(SubSeq(s, 1, Len(s) - 1))
  ELSE s

NoTrim(s) == s

Trim(s) == TrimEnd(TrimStart(s))

Includes(s, pat) ==
  \E i \in 0..(Len(s) - Len(pat)) : SubSeq(s, i + 1, i + Len(pat)) = pat

\* ------------------------------------------------------------------------
\* todoApi.js: handleResponseError
\* ------------------------------------------------------------------------
\* a response body is
\*   [kind |-> "text", text |-> s]        text that is not JSON ('' included)
\*   [kind |-> "json", message |-> o, error |-> o]   JSON; o optional strings
\*   [kind |-> "unreadable"]              response.clone().text() rejects
Truthy(opt) == opt # Undefined /\ opt[1] # <<>>

DefaultErrorMessage(status) == <<"Server error (", ToString(status), ")">>

InternalErrorText == <<"Internal server error. Please try again later.">>
NotFoundText == <<"The requested resource could not be found.">>
BadRequestText == <<"Bad request. Please check the input.">>
UnauthorizedText == <<"Authentication is required.">>
ForbiddenText == <<"Access denied.">>

TroubleshootingSuffix ==
  <<"\n\nThis may be a server-side problem. Possible causes:\n",
    "1. Database connection problem\n",
    "2. Server environment variable problem\n",
    "3. Server code error\n\n",
    "Check the Heroku logs or try again later.">>

StatusMessage(status) ==
  CASE status = 500 -> InternalErrorText
    [] status = 404 -> NotFoundText
    [] status = 400 -> BadRequestText
    [] status = 401 -> UnauthorizedText
    [] status = 403 -> ForbiddenText
    [] OTHER -> DefaultErrorMessage(status)

BaseMessageByStatus(status, body) ==
  CASE body.kind = "unreadable" -> StatusMessage(status)
    [] body.kind = "json" ->
         IF Truthy(body.message) THEN body.message[1]
         ELSE IF Truthy(body.error) THEN body.error[1]
         ELSE StatusMessage(status)
    [] OTHER ->
         IF Len(body.text) > 0
         THEN SubSeq(body.text, 1, Min(Len(body.text), TruncLen))
         ELSE StatusMessage(status)

BaseMessage(status, body) ==
  CASE body.kind = "unreadable" -> StatusMessage(status)
    [] body.kind = "json" ->
         IF Truthy(body.message) THEN body.message[1]
         ELSE IF Truthy(body.error) THEN body.error[1]
         ELSE DefaultErrorMessage(status)
    [] OTHER ->
         IF Len(body.text) > 0
         THEN SubSeq(body.text, 1, Min(Len(body.text), TruncLen))
         ELSE DefaultErrorMessage(status)

HasSuffixAnyServerFault(status) == status >= 500

HasSuffix(status) == status = 500

handleResponseError(status, body) ==
  IF HasSuffix(status)
  THEN BaseMessage(status, body) \o TroubleshootingSuffix
  ELSE BaseMessage(status, body)

\* ------------------------------------------------------------------------
\* todoApi.js: the requests the four operations build
\* ------------------------------------------------------------------------
NoRequest == [method |-> "NONE"]

BoolToString(b) == IF b THEN "true" ELSE "false"

\* new Date(<datetime-local text>).toISOString()
toISOString(d) == d \o ":00.000Z"

InvalidIdMessage == <<"Invalid todo ID">>
TitleRequiredMessage == <<"Please enter a todo title.">>

IsInvalidIdNoNull(id) == id = "" \/ id = "undefined"

IsInvalidId(id) == id = "" \/ id = "undefined" \/ id = "null"

FetchTodosRequest(isCompleted) ==
  [method |-> "GET",
   url |-> IF isCompleted # Undefined
           THEN ApiBaseUrl \o "?isCompleted=" \o BoolToString(isCompleted[1])
           ELSE ApiBaseUrl]

\* createTodo(title, description = '', dueDate = null, isCompleted = false);
\* dueDate is a Date (<<d>>) or null (<<>>)
CreateRequestData(title, description, dueDate, isCompleted) ==
  LET desc == IF description = Undefined THEN <<>> ELSE description[1]
      done == IF isCompleted = Undefined THEN FALSE ELSE isCompleted[1]
      d0 == [title |-> Trim(title)]
      d1 == IF desc # <<>> /\ Trim(desc) # <<>>
            THEN d0 @@ [description |-> Trim(desc)] ELSE d0
      d2 == IF dueDate # Undefined
            THEN d1 @@ [dueDate |-> toISOString(dueDate[1])] ELSE d1
  IN  IF done \in BOOLEAN THEN d2 @@ [isCompleted |-> done] ELSE d2

CreateTodoRequest(title, description, dueDate, isCompleted) ==
  [method |-> "POST", url |-> ApiBaseUrl,
   body |-> CreateRequestData(title, description, dueDate, isCompleted)]

\* updateData is a record holding the fields that were passed
UpdateRequestData(updateData) ==
  LET F == DOMAIN updateData
      d0 == IF "title" \in F THEN [title |-> Trim(updateData.title)]
            ELSE [f \in {} |-> TRUE]
      d1 == IF "description" \in F
            THEN d0 @@ [description |-> Trim(updateData.description)] ELSE d0
      d2 == IF "dueDate" \in F
            THEN d1 @@ [dueDate |-> updateData.dueDate] ELSE d1
  IN  IF "isCompleted" \in F
      THEN d2 @@ [isCompleted |-> updateData.isCompleted] ELSE d2

UpdateTodoRequest(id, updateData) ==
  IF IsInvalidId(id) THEN NoRequest
  ELSE [method |-> "PATCH", url |-> ApiBaseUrl \o "/" \o id,
        body |-> UpdateRequestData(updateData)]

DeleteTodoRequest(id) ==
  IF IsInvalidId(id) THEN NoRequest
  ELSE [method |-> "DELETE", url |-> ApiBaseUrl \o "/" \o id]

\* ------------------------------------------------------------------------
\* todoApi.js: what an operation returns or throws for a given answer
\* ------------------------------------------------------------------------
\* an answer of the network is
\*   [kind |-> "http", status |-> n, data |-> v]   status 2xx, JSON value v
\*   [kind |-> "http", status |-> n, body |-> b]   any other status
\*   [kind |-> "network", message |-> m]           fetch rejects (TypeError)
ResponseOk(resp) == resp.status >= 200 /\ resp.status <= 299

ListConnectMessage ==
  <<"Cannot connect to the backend server (", ApiBaseUrl, ").",
    "\n\nPlease check:\n1. your internet connection\n",
    "2. that the Heroku server is running\n",
    "3. the network tab of the browser developer tools">>

ConnectMessage ==
  <<"Cannot connect to the backend server. Please check that the server is running.">>

Returned(v) == [ok |-> TRUE, value |-> v]
Thrown(m) == [ok |-> FALSE, message |-> m]

fetchTodos(resp) ==
  IF resp.kind = "network"
  THEN IF \/ Includes(resp.message, <<"fetch">>)
          \/ Includes(resp.message, <<"Failed to ", "fetch">>)
          \/ Includes(resp.message, <<"network">>)
          \/ Includes(resp.message, <<"NetworkError">>)
       THEN Thrown(ListConnectMessage)
       ELSE Thrown(resp.message)
  ELSE IF ~ResponseOk(resp)
       THEN Thrown(handleResponseError(resp.status, resp.body))
       ELSE Returned(resp.data)

\* createTodo and updateTodo after the request was sent
createTodo(resp) ==
  IF resp.kind = "network"
  THEN IF Includes(resp.message, <<"fetch">>)
       THEN Thrown(ConnectMessage)
       ELSE Thrown(resp.message)
  ELSE IF ~ResponseOk(resp)
       THEN Thrown(handleResponseError(resp.status, resp.body))
       ELSE Returned(resp.data)

updateTodo(resp) ==
  IF resp.kind = "network"
  THEN IF Includes(resp.message, <<"fetch">>)
       THEN Thrown(ConnectMessage)
       ELSE Thrown(resp.message)
  ELSE IF ~ResponseOk(resp)
       THEN Thrown(handleResponseError(resp.status, resp.body))
       ELSE Returned(resp.data)

deleteTodo(resp) ==
  IF resp.kind = "network"
  THEN IF Includes(resp.message, <<"fetch">>)
       THEN Thrown(ConnectMessage)
       ELSE Thrown(resp.message)
  ELSE IF ~ResponseOk(resp) /\ resp.status # 204
       THEN Thrown(handleResponseError(resp.status, resp.body))
       ELSE Returned(Undefined)

\* ------------------------------------------------------------------------
\* The backend, as far as the client sees it
\* ------------------------------------------------------------------------
\* identifiers in the order the backend hands them out
IdPool == <<"1", "2">>
Ids == {IdPool[i] : i \in 1..Len(IdPool)}
\* identifiers the client refuses to send
BadIds == {"", "undefined", "null"}

IdIndex(id) == IF id \in BadIds THEN 0
               ELSE CHOOSE i \in 1..Len(IdPool) : IdPool[i] = id

StoredTitle == <<"x">>

idsOf(list) == {list[i]._id : i \in 1..Len(list)}

\* the backend returns lists with the newest task first and no identifier
\* twice
TodoItems(idset) ==
  [_id : idset, title : {StoredTitle}, isCompleted : BOOLEAN]

Matches(todo, url) ==
  /\ url = ApiBaseUrl \o "?isCompleted=true" => todo.isCompleted
  /\ url = ApiBaseUrl \o "?isCompleted=false" => ~todo.isCompleted

\* the lists over items in which identifiers strictly decrease, all below
\* position bound
RECURSIVE Descending(_, _)
Descending(items, bound) ==
  {<<>>} \cup
  UNION {{<<t>> \o l : l \in Descending(items, IdIndex(t._id))} :
           t \in {u \in items : IdIndex(u._id) < bound}}

ListResults(idset, url) ==
  Descending({t \in TodoItems(idset) : Matches(t, url)}, Len(IdPool) + 1)

\* ------------------------------------------------------------------------
\* App.jsx: state of the view
\* ------------------------------------------------------------------------
VARIABLES
  todos,             \* useState([])
  titleInput,        \* useState('')
  descriptionInput,  \* useState('')
  dueDateInput,      \* useState('')
  editingTodoId,     \* useState(null)
  editingData,       \* useState({title, description, dueDate, isCompleted})
  isLoading,         \* useState(false)
  errorMessage,      \* useState('')
  filter,            \* useState('all')
  inflight,          \* calls awaiting their answer, oldest first; each keeps
                     \* the todos of the render that started it
  deletedIds,        \* identifiers whose DELETE the backend has confirmed
  calls,             \* number of calls started by user actions so far
  last               \* the call completed by the last step, its answer and
                     \* its result; NoStep after any other step

vars == <<todos, titleInput, descriptionInput, dueDateInput, editingTodoId,
          editingData, isLoading, errorMessage, filter, inflight, deletedIds,
          calls, last>>

form == <<titleInput, descriptionInput, dueDateInput>>
editing == <<editingTodoId, editingData>>

NoStep == [op |-> "none"]

EmptyEditingData ==
  [title |-> <<>>, description |-> <<>>, dueDate |-> "", isCompleted |-> FALSE]

RemoveAt(seq, i) == SubSeq(seq, 1, i - 1) \o SubSeq(seq, i + 1, Len(seq))

loadTodosUnfiltered(f) == FetchTodosRequest(Undefined)

\* loadTodos up to its await
loadTodos(f) ==
  FetchTodosRequest(IF f = "completed" THEN Some(TRUE)
                    ELSE IF f = "pending" THEN Some(FALSE)
                    ELSE Undefined)

\* a pending list request; the backend may answer it with any task it had
\* not deleted when the request was sent
LoadCall(f, deleted) ==
  [op |-> "loadTodos", request |-> loadTodos(f), sentAfter |-> deleted]

\* createRoot(...).render(<StrictMode><App/></StrictMode>): the mount effect
\* runs once, and twice in a development build
MountEffects == {1, 2}

InitWith(n) ==
  /\ todos = <<>>
  /\ titleInput = <<>>
  /\ descriptionInput = <<>>
  /\ dueDateInput = ""
  /\ editingTodoId = Undefined
  /\ editingData = EmptyEditingData
  /\ isLoading = TRUE
  /\ errorMessage = <<>>
  /\ filter = "all"
  /\ inflight = [i \in 1..n |-> LoadCall("all", {})]
  /\ deletedIds = {}
  /\ calls = 0
  /\ last = NoStep

Init == \E n \in MountEffects : InitWith(n)

\* ------------------------------------------------------------------------
\* App.jsx: inputs (all disabled while isLoading)
\* ------------------------------------------------------------------------
SetTitleInput(v) ==
  /\ ~isLoading
  /\ v # titleInput
  /\ titleInput' = v
  /\ last' = NoStep
  /\ UNCHANGED <<todos, descriptionInput, dueDateInput, editing, isLoading,
                 errorMessage, filter, inflight, deletedIds, calls>>

SetDescriptionInput(v) ==
  /\ ~isLoading
  /\ v # descriptionInput
  /\ descriptionInput' = v
  /\ last' = NoStep
  /\ UNCHANGED <<todos, titleInput, dueDateInput, editing, isLoading,
                 errorMessage, filter, inflight, deletedIds, calls>>

SetDueDateInput(v) ==
  /\ ~isLoading
  /\ v # dueDateInput
  /\ dueDateInput' = v
  /\ last' = NoStep
  /\ UNCHANGED <<todos, titleInput, descriptionInput, editing, isLoading,
                 errorMessage, filter, inflight, deletedIds, calls>>

\* the row being edited is on screen
EditRowShown ==
  editingTodoId # Undefined /\ editingTodoId[1] \in idsOf(todos)

SetEditingData(field, v) ==
  /\ ~isLoading
  /\ EditRowShown
  /\ v # editingData[field]
  /\ editingData' = [editingData EXCEPT ![field] = v]
  /\ last' = NoStep
  /\ UNCHANGED <<todos, form, editingTodoId, isLoading, errorMessage, filter,
                 inflight, deletedIds, calls>>

\* setFilter(f) and the effect on [filter] that follows the render
SetFilter(f) ==
  /\ ~isLoading
  /\ f # filter
  /\ calls < MaxCalls
  /\ calls' = calls + 1
  /\ filter' = f
  /\ isLoading' = TRUE
  /\ errorMessage' = <<>>
  /\ inflight' = Append(inflight, LoadCall(f, deletedIds))
  /\ last' = NoStep
  /\ UNCHANGED <<todos, form, editing, deletedIds>>

\* ------------------------------------------------------------------------
\* App.jsx: handlers up to their await
\* ------------------------------------------------------------------------
\* an action whose client call throws before any request: the catch and the
\* finally block run before any other event
Rejected(op, message) ==
  /\ errorMessage' = message
  /\ isLoading' = FALSE
  /\ last' = NoStep
  /\ UNCHANGED <<todos, form, editing, filter, inflight, deletedIds, calls>>

Started(op, req, todoId) ==
  /\ calls < MaxCalls
  /\ calls' = calls + 1
  /\ isLoading' = TRUE
  /\ errorMessage' = <<>>
  /\ inflight' = Append(inflight, [op |-> op, request |-> req,
                                   todos |-> todos, todoId |-> todoId])
  /\ last' = NoStep
  /\ UNCHANGED <<todos, form, editing, filter, deletedIds>>

handleAddTodo ==
  /\ ~isLoading
  /\ IF Trim(titleInput) = <<>>
     THEN /\ errorMessage' = TitleRequiredMessage
          /\ last' = NoStep
          /\ UNCHANGED <<todos, form, editing, isLoading, filter, inflight,
                         deletedIds, calls>>
     ELSE LET dueDate == IF dueDateInput # "" THEN Some(dueDateInput)
                         ELSE Undefined
          IN  Started("handleAddTodo",
                      CreateTodoRequest(titleInput, Some(descriptionInput),
                                        dueDate, Some(FALSE)),
                      "")

handleStartEdit(i) ==
  /\ ~isLoading
  /\ i \in 1..Len(todos)
  /\ editingTodoId # Some(todos[i]._id)
  /\ editingTodoId' = Some(todos[i]._id)
  /\ editingData' = [title |-> todos[i].title, description |-> <<>>,
                     dueDate |-> "", isCompleted |-> todos[i].isCompleted]
  /\ last' = NoStep
  /\ UNCHANGED <<todos, form, isLoading, errorMessage, filter, inflight,
                 deletedIds, calls>>

handleCancelEdit ==
  /\ ~isLoading
  /\ EditRowShown
  /\ editingTodoId' = Undefined
  /\ editingData' = EmptyEditingData
  /\ last' = NoStep
  /\ UNCHANGED <<todos, form, isLoading, errorMessage, filter, inflight,
                 deletedIds, calls>>

handleSaveEdit ==
  /\ ~isLoading
  /\ EditRowShown
  /\ IF Trim(editingData.title) = <<>>
     THEN /\ errorMessage' = TitleRequiredMessage
          /\ last' = NoStep
          /\ UNCHANGED <<todos, form, editing, isLoading, filter, inflight,
                         deletedIds, calls>>
     ELSE LET todoId == editingTodoId[1]
              fields == [title |-> editingData.title,
                         description |-> editingData.description,
                         isCompleted |-> editingData.isCompleted]
              updateData ==
                IF editingData.dueDate # ""
                THEN fields @@ [dueDate |-> toISOString(editingData.dueDate)]
                ELSE fields
              req == UpdateTodoRequest(todoId, updateData)
          IN  IF req.method = "NONE"
              THEN Rejected("handleSaveEdit", InvalidIdMessage)
              ELSE Started("handleSaveEdit", req, todoId)

handleToggleComplete(i) ==
  /\ ~isLoading
  /\ i \in 1..Len(todos)
  /\ editingTodoId # Some(todos[i]._id)
  /\ LET todo == todos[i]
         req == UpdateTodoRequest(todo._id,
                                  [isCompleted |-> ~todo.isCompleted])
     IN  IF req.method = "NONE"
         THEN Rejected("handleToggleComplete", InvalidIdMessage)
         ELSE Started("handleToggleComplete", req, todo._id)

handleDeleteTodo(i, confirmed) ==
  /\ ~isLoading
  /\ i \in 1..Len(todos)
  /\ editingTodoId # Some(todos[i]._id)
  /\ IF ~confirmed
     THEN /\ last' = NoStep
          /\ UNCHANGED <<todos, form, editing, isLoading, errorMessage,
                         filter, inflight, deletedIds, calls>>
     ELSE LET req == DeleteTodoRequest(todos[i]._id)
          IN  IF req.method = "NONE"
              THEN Rejected("handleDeleteTodo", InvalidIdMessage)
              ELSE Started("handleDeleteTodo", req, todos[i]._id)

\* ------------------------------------------------------------------------
\* App.jsx: handlers from their await on, given the answer to call i
\* ------------------------------------------------------------------------
Awaiting(i, op) == i \in 1..Len(inflight) /\ inflight[i].op = op

FailedWithoutFinally(i, resp, result) ==
  /\ errorMessage' = result.message
  /\ inflight' = RemoveAt(inflight, i)
  /\ last' = [op |-> inflight[i].op, resp |-> resp, result |-> result]
  /\ UNCHANGED <<todos, form, editing, isLoading, filter, deletedIds, calls>>

\* catch and finally blocks
Failed(i, resp, result) ==
  /\ errorMessage' = result.message
  /\ isLoading' = FALSE
  /\ inflight' = RemoveAt(inflight, i)
  /\ last' = [op |-> inflight[i].op, resp |-> resp, result |-> result]
  /\ UNCHANGED <<todos, form, editing, filter, deletedIds, calls>>

\* end of the try block and finally block
Succeeded(i, resp, result) ==
  /\ isLoading' = FALSE
  /\ inflight' = RemoveAt(inflight, i)
  /\ last' = [op |-> inflight[i].op, resp |-> resp, result |-> result]
  /\ UNCHANGED <<errorMessage, filter, calls>>

Prepend(todo, list) == <<todo>> \o list

ReplaceById(list, todoId, updatedTodo) ==
  [k \in 1..Len(list) |->
     IF list[k]._id = todoId THEN updatedTodo ELSE list[k]]

RemoveById(list, todoId) == SelectSeq(list, LAMBDA t : t._id # todoId)

loadTodosDoneGuarded(i, resp) ==
  /\ Awaiting(i, "loadTodos")
  /\ LET result == fetchTodos(resp)
     IN  IF result.ok
         THEN /\ Succeeded(i, resp, result)
              /\ todos' = IF inflight[i].request = loadTodos(filter)
                          THEN result.value
                          ELSE todos
              /\ UNCHANGED <<form, editing, deletedIds>>
         ELSE Failed(i, resp, result)

loadTodosDone(i, resp) ==
  /\ Awaiting(i, "loadTodos")
  /\ LET result == fetchTodos(resp)
     IN  IF result.ok
         THEN /\ Succeeded(i, resp, result)
              /\ todos' = result.value
              /\ UNCHANGED <<form, editing, deletedIds>>
         ELSE Failed(i, resp, result)

handleAddTodoDone(i, resp) ==
  /\ Awaiting(i, "handleAddTodo")
  /\ LET result == createTodo(resp)
     IN  IF result.ok
         THEN /\ Succeeded(i, resp, result)
              /\ todos' = Prepend(result.value, inflight[i].todos)
              /\ titleInput' = <<>>
              /\ descriptionInput' = <<>>
              /\ dueDateInput' = ""
              /\ UNCHANGED <<editing, deletedIds>>
         ELSE Failed(i, resp, result)

handleSaveEditDoneClosing(i, resp) ==
  /\ Awaiting(i, "handleSaveEdit")
  /\ LET result == updateTodo(resp)
     IN  IF result.ok
         THEN /\ Succeeded(i, resp, result)
              /\ todos' = ReplaceById(inflight[i].todos, inflight[i].todoId,
                                      result.value)
              /\ editingTodoId' = Undefined
              /\ editingData' = EmptyEditingData
              /\ UNCHANGED <<form, deletedIds>>
         ELSE /\ errorMessage' = result.message
              /\ isLoading' = FALSE
              /\ inflight' = RemoveAt(inflight, i)
              /\ last' = [op |-> inflight[i].op, resp |-> resp,
                          result |-> result]
              /\ editingTodoId' = Undefined
              /\ editingData' = EmptyEditingData
              /\ UNCHANGED <<todos, form, filter, deletedIds, calls>>

handleSaveEditDone(i, resp) ==
  /\ Awaiting(i, "handleSaveEdit")
  /\ LET result == updateTodo(resp)
     IN  IF result.ok
         THEN /\ Succeeded(i, resp, result)
              /\ todos' = ReplaceById(inflight[i].todos, inflight[i].todoId,
                                      result.value)
              /\ editingTodoId' = Undefined
              /\ editingData' = EmptyEditingData
              /\ UNCHANGED <<form, deletedIds>>
         ELSE Failed(i, resp, result)

handleToggleCompleteDone(i, resp) ==
  /\ Awaiting(i, "handleToggleComplete")
  /\ LET result == updateTodo(resp)
     IN  IF result.ok
         THEN /\ Succeeded(i, resp, result)
              /\ todos' = ReplaceById(inflight[i].todos, inflight[i].todoId,
                                      result.value)
              /\ UNCHANGED <<form, editing, deletedIds>>
         ELSE Failed(i, resp, result)

handleDeleteTodoDone(i, resp) ==
  /\ Awaiting(i, "handleDeleteTodo")
  /\ LET result == deleteTodo(resp)
     IN  IF result.ok
         THEN /\ Succeeded(i, resp, result)
              /\ todos' = RemoveById(inflight[i].todos, inflight[i].todoId)
              /\ deletedIds' = deletedIds \cup {inflight[i].todoId}
              /\ UNCHANGED <<form, editing>>
         ELSE Failed(i, resp, result)

\* ------------------------------------------------------------------------
\* Answers of the network to a call
\* ------------------------------------------------------------------------
Answer(status, v) == [kind |-> "http", status |-> status, data |-> v]
ErrorAnswer(status, body) == [kind |-> "http", status |-> status, body |-> body]
NetworkFailure(m) == [kind |-> "network", message |-> m]

\* a created task gets an identifier newer than any the client has seen
FreshIds(call) ==
  {id \in Ids : \A k \in idsOf(todos) \cup idsOf(call.todos) \cup deletedIds :
                  IdIndex(id) > IdIndex(k)}

SuccessAnswers(call, idset) ==
  CASE call.op = "loadTodos" ->
         {Answer(200, l) : l \in ListResults(idset \ call.sentAfter,
                                             call.request.url)}
    [] call.op = "handleAddTodo" ->
         {Answer(201, [_id |-> id, title |-> call.request.body.title,
                       isCompleted |-> call.request.body.isCompleted]) :
            id \in FreshIds(call)}
    [] call.op \in {"handleSaveEdit", "handleToggleComplete"} ->
         {Answer(200, [_id |-> call.todoId,
                       title |-> IF "title" \in DOMAIN call.request.body
                                 THEN call.request.body.title
                                 ELSE StoredTitle,
                       isCompleted |-> b]) : b \in BOOLEAN}
    [] OTHER -> {Answer(204, Undefined)}

ErrorStatuses == {400, 401, 403, 404, 418, 500, 502}

LongText == [k \in 1..(TruncLen + 1) |-> "a"]

OptionalTexts(t) == {Undefined, Some(<<>>), Some(t)}

ErrorBodies ==
  {[kind |-> "text", text |-> t] :
     t \in {<<>>, <<"o", "o", "p", "s">>, SubSeq(LongText, 1, TruncLen),
            LongText}}
  \cup {[kind |-> "json", message |-> m, error |-> e] :
          m \in OptionalTexts(<<"m">>), e \in OptionalTexts(<<"e">>)}
  \cup {[kind |-> "unreadable"]}

NetworkErrors ==
  {<<"Failed to ", "fetch">>,
   <<"Load failed">>,
   <<"NetworkError", " when attempting to ", "fetch", " resource.">>}

AllFailures ==
  {ErrorAnswer(s, b) : s \in ErrorStatuses, b \in ErrorBodies}
  \cup {NetworkFailure(m) : m \in NetworkErrors}

FewFailures == {ErrorAnswer(500, [kind |-> "text", text |-> <<>>])}

\* ------------------------------------------------------------------------
\* Steps of the view
\* ------------------------------------------------------------------------
Filters == {"all", "completed", "pending"}

Rows == 1..Len(todos)
Calls == 1..Len(inflight)

\* clicks
Clicks ==
  \/ \E f \in Filters : SetFilter(f)
  \/ handleAddTodo
  \/ \E i \in Rows : handleStartEdit(i)
  \/ handleCancelEdit
  \/ handleSaveEdit
  \/ \E i \in Rows : handleToggleComplete(i)
  \/ \E i \in Rows, confirmed \in BOOLEAN : handleDeleteTodo(i, confirmed)

\* answers: tasks with identifiers of idset, failures of the given set
Completions(idset, failures) ==
  \E i \in Calls :
    \E resp \in SuccessAnswers(inflight[i], idset) \cup failures :
      \/ loadTodosDone(i, resp)
      \/ handleAddTodoDone(i, resp)
      \/ handleSaveEditDone(i, resp)
      \/ handleToggleCompleteDone(i, resp)
      \/ handleDeleteTodoDone(i, resp)

\* texts typed
TitleTexts ==
  {<<>>, <<" ">>, <<" ", " ">>, <<"x">>, <<" ", "x">>, <<"x", " ">>}
DescriptionTexts == {<<>>, <<" ">>, <<"d">>}
DueDateTexts == {"", "2025-01-01T10:00"}

\* typing into the form
Typing ==
  \/ \E v \in TitleTexts : SetTitleInput(v)
  \/ \E v \in DescriptionTexts : SetDescriptionInput(v)
  \/ \E v \in DueDateTexts : SetDueDateInput(v)

\* one title typed, the completion box of the edited row ticked
FewInputs ==
  \/ SetTitleInput(<<"x">>)
  \/ \E v \in BOOLEAN : SetEditingData("isCompleted", v)

\* ------------------------------------------------------------------------
\* Specifications
\* ------------------------------------------------------------------------
\* development or production build: calls overlap; two tasks
Next ==
  \/ Clicks
  \/ FewInputs
  \/ Completions(Ids, FewFailures)

Spec == Init /\ [][Next]_vars

\* the same with one task in the lists, every request answered in the end
NextFair ==
  \/ Clicks
  \/ FewInputs
  \/ Completions({"1"}, FewFailures)

FairSpec ==
  Init /\ [][NextFair]_vars /\ WF_vars(Completions({"1"}, FewFailures))

\* production build; every text is typed as a title
NextForm ==
  \/ Clicks
  \/ Typing
  \/ \E v \in TitleTexts : SetEditingData("title", v)
  \/ Completions({"1"}, FewFailures)

SpecForm == InitWith(1) /\ [][NextForm]_vars

\* production build; the backend also returns tasks with unusable identifiers
NextIds ==
  \/ Clicks
  \/ FewInputs
  \/ Completions({"1"} \cup BadIds, FewFailures)

SpecIds == InitWith(1) /\ [][NextIds]_vars

\* production build; every kind of failure
NextErr ==
  \/ Clicks
  \/ FewInputs
  \/ Completions(Ids, AllFailures)

SpecErr == InitWith(1) /\ [][NextErr]_vars

\* ------------------------------------------------------------------------
\* Properties
\* ------------------------------------------------------------------------
Completed == last.op # "none"

HttpFailure ==
  /\ Completed
  /\ ~last.result.ok
  /\ last.resp.kind = "http"

IsBlank(s) == \A k \in 1..Len(s) : s[k] = " "

EndsWith(s, t) ==
  Len(s) >= Len(t) /\ SubSeq(s, Len(s) - Len(t) + 1, Len(s)) = t

\* C1: every action that sets the loading flag clears it when its client
\* call finishes, successfully or not: in the state a completed call leaves
\* the flag is false, and when every request is eventually answered a set
\* flag always becomes false again.
C1_LoadingCleared ==
  /\ [](Completed => ~isLoading)
  /\ isLoading ~> ~isLoading

C1_FailedCallCleared ==
  /\ Completed
  /\ last.op = "handleDeleteTodo"
  /\ ~last.result.ok
  /\ ~isLoading
  /\ inflight # <<>>

FilterUrl(f) ==
  CASE f = "completed" -> ApiBaseUrl \o "?isCompleted=true"
    [] f = "pending" -> ApiBaseUrl \o "?isCompleted=false"
    [] f = "all" -> ApiBaseUrl

\* C2: every change of the filter issues exactly one list request, with
\* isCompleted=true for 'completed', isCompleted=false for 'pending' and no
\* parameter for 'all'; a list request that succeeds replaces the whole list
\* by the response.
C2_FilterReload ==
  [][/\ filter' # filter =>
          /\ Len(inflight') = Len(inflight) + 1
          /\ SubSeq(inflight', 1, Len(inflight)) = inflight
          /\ inflight'[Len(inflight')].request =
               [method |-> "GET", url |-> FilterUrl(filter')]
     /\ (last'.op = "loadTodos" /\ last'.result.ok) =>
          todos' = last'.resp.data]_vars

C2_FilteredListShown ==
  /\ filter = "completed"
  /\ last.op = "loadTodos"
  /\ last.result.ok
  /\ last.resp.data # <<>>
  /\ todos = last.resp.data

SendsTitle(call) ==
  /\ "body" \in DOMAIN call.request
  /\ "title" \in DOMAIN call.request.body

\* C3: a blank or whitespace-only title is rejected by the create action
\* and by save-edit: the error is shown, no request is issued, and no POST
\* or PATCH request ever carries a title that is empty after trimming.
C3_BlankTitleRejected ==
  /\ [](\A i \in Calls :
          SendsTitle(inflight[i]) => ~IsBlank(inflight[i].request.body.title))
  /\ [][(\/ handleAddTodo /\ IsBlank(titleInput)
         \/ handleSaveEdit /\ IsBlank(editingData.title))
        => /\ inflight' = inflight
           /\ todos' = todos
           /\ errorMessage' = TitleRequiredMessage]_vars

C3_WhitespaceTitleRefused ==
  /\ errorMessage = TitleRequiredMessage
  /\ titleInput = <<" ", " ">>
  /\ inflight = <<>>

\* C4: creating a task with only a title sends a POST body whose only
\* field is title, holding the trimmed title; description, dueDate and
\* isCompleted are absent.
C4_OnlyTitleSent ==
  \A i \in Calls :
    (/\ inflight[i].op = "handleAddTodo"
     /\ IsBlank(descriptionInput)
     /\ dueDateInput = "")
    => /\ DOMAIN inflight[i].request.body = {"title"}
       /\ inflight[i].request.body.title = Trim(titleInput)

\* C5: delete, toggle and save-edit on a task whose identifier is "",
\* "undefined" or "null" fail with the invalid-identifier error without any
\* request; the view stores the error and leaves the list unchanged.
C5_InvalidIdRejected ==
  /\ [](\A i \in Calls :
          inflight[i].request.url \notin
            {ApiBaseUrl \o "/" \o id : id \in BadIds})
  /\ [][\A i \in Rows :
          (/\ todos[i]._id \in BadIds
           /\ \/ handleDeleteTodo(i, TRUE)
              \/ handleToggleComplete(i)
              \/ /\ editingTodoId = <<todos[i]._id>>
                 /\ ~IsBlank(editingData.title)
                 /\ handleSaveEdit)
          => /\ inflight' = inflight
             /\ todos' = todos
             /\ errorMessage' = InvalidIdMessage]_vars

C5_InvalidIdShown ==
  /\ errorMessage = InvalidIdMessage
  /\ inflight = <<>>
  /\ \E i \in Rows : todos[i]._id = "null"

NoUsableMessage(body) ==
  \/ body.kind = "text" /\ body.text = <<>>
  \/ body.kind = "json" /\ ~Truthy(body.message) /\ ~Truthy(body.error)

\* C6 as stated: a 404 response whose body supplies no usable message
\* (empty body, or JSON without a message or error field) raises the fixed
\* not-found text.
C6_NotFoundText ==
  (HttpFailure /\ last.resp.status = 404 /\ NoUsableMessage(last.resp.body))
  => errorMessage = NotFoundText

IsTruncated(s, text) ==
  /\ Len(s) = IF Len(text) > TruncLen THEN TruncLen ELSE Len(text)
  /\ \A k \in 1..Len(s) : s[k] = text[k]

\* C6 as amended: a 404 response raises the structured message (message,
\* else error) of a JSON body, else the non-empty raw body text cut to
\* TruncLen characters, else the default "server error (404)" text; the
\* fixed not-found text is raised only when the body cannot be read.
C6_NotFoundFallback ==
  (HttpFailure /\ last.resp.status = 404) =>
    LET body == last.resp.body IN
    IF body.kind = "unreadable" THEN errorMessage = NotFoundText
    ELSE IF NoUsableMessage(body)
    THEN errorMessage = <<"Server error (", "404", ")">>
    ELSE IF body.kind = "json"
    THEN errorMessage = IF Truthy(body.message) THEN body.message[1]
                        ELSE body.error[1]
    ELSE IsTruncated(errorMessage, body.text)

C6_DefaultShownFor404 ==
  /\ HttpFailure
  /\ last.resp.status = 404
  /\ last.resp.body = [kind |-> "text", text |-> <<>>]
  /\ errorMessage = <<"Server error (", "404", ")">>

\* C7 as stated: for every 5xx response of any operation the message is the
\* base message followed by the troubleshooting suffix, and for every other
\* error response the suffix is absent.
C7_ServerFaultSuffix ==
  HttpFailure =>
    IF last.resp.status >= 500
    THEN errorMessage =
           BaseMessage(last.resp.status, last.resp.body)
             \o TroubleshootingSuffix
    ELSE ~EndsWith(errorMessage, TroubleshootingSuffix)

\* C7 as amended: for every response with status 500 of any operation the
\* message is the base message followed by the troubleshooting suffix; for
\* every other error response, 5xx statuses other than 500 included, the
\* message is the base message and the suffix is absent.
C7_Status500Suffix ==
  HttpFailure =>
    IF last.resp.status = 500
    THEN errorMessage =
           BaseMessage(last.resp.status, last.resp.body)
             \o TroubleshootingSuffix
    ELSE /\ errorMessage = BaseMessage(last.resp.status, last.resp.body)
         /\ ~EndsWith(errorMessage, TroubleshootingSuffix)

C7_SuffixShown ==
  /\ HttpFailure
  /\ last.op = "handleToggleComplete"
  /\ last.resp.status = 500
  /\ last.resp.body.kind = "json"
  /\ EndsWith(errorMessage, TroubleshootingSuffix)

\* C8: after a create succeeds the returned task is the first element of
\* the list and the elements that were in the list follow it in unchanged
\* order, whatever else was started before the response arrived.
C8_CreatedFirst ==
  [][(last'.op = "handleAddTodo" /\ last'.result.ok)
     => todos' = <<last'.resp.data>> \o todos]_vars

\* C9: after a toggle or save-edit succeeds the entry with that identifier
\* is the entity the server returned, and every other entry, the order and
\* the length of the list are unchanged.
C9_UpdatedInPlace ==
  [][(last'.op \in {"handleToggleComplete", "handleSaveEdit"}
      /\ last'.result.ok)
     => /\ Len(todos') = Len(todos)
        /\ \A k \in 1..Len(todos) :
             todos'[k] = IF todos[k]._id = last'.resp.data._id
                         THEN last'.resp.data
                         ELSE todos[k]]_vars

\* C10: once a delete has succeeded, no entry with that identifier is in
\* the list, in the resulting state or in any later one.
C10_DeletedStaysAbsent ==
  \A id \in deletedIds : id \notin idsOf(todos)

\* C11: requests in flight are neither cancelled nor guarded: a change of
\* the filter keeps every request that is in flight, and the successful
\* answer of a list request issued for another filter than the selected one
\* still replaces the list; so a state is reachable in which the answer of
\* the earlier of two list requests was applied last and the list shows the
\* result of a filter that is not the selected one.
C11_StaleAnswerApplied ==
  [][/\ filter' # filter =>
          \A i \in Calls : inflight'[i] = inflight[i]
     /\ \A i \in Calls :
          (/\ inflight[i].op = "loadTodos"
           /\ inflight[i].request.url # FilterUrl(filter)
           /\ inflight' = RemoveAt(inflight, i)
           /\ last'.op = "loadTodos"
           /\ last'.result.ok)
          => /\ todos' = last'.resp.data
             /\ filter' = filter]_vars

C11_StaleListShown ==
  /\ filter = "completed"
  /\ inflight = <<>>
  /\ last.op = "loadTodos"
  /\ last.result.ok
  /\ todos = last.resp.data
  /\ \E k \in Rows : ~todos[k].isCompleted

Mutations ==
  {"handleAddTodo", "handleSaveEdit", "handleToggleComplete",
   "handleDeleteTodo"}

NonEmptyText(s) == \E k \in 1..Len(s) : s[k] # ""

\* C12: when the client call of a create, save-edit, toggle or delete
\* action fails, the list is left as it was, a non-empty error string is
\* stored, the row being edited and its draft fields are kept and the form
\* inputs are kept; the answer of such a call changes the list or the
\* editing state only when the call succeeded.
C12_FailureKeepsState ==
  [][(last'.op \in Mutations) =>
       /\ ~last'.result.ok =>
            /\ todos' = todos
            /\ NonEmptyText(errorMessage')
            /\ errorMessage' = last'.result.message
            /\ editingTodoId' = editingTodoId
            /\ editingData' = editingData
            /\ titleInput' = titleInput
            /\ descriptionInput' = descriptionInput
            /\ dueDateInput' = dueDateInput
       /\ (\/ todos' # todos
           \/ editingTodoId' # editingTodoId
           \/ editingData' # editingData) => last'.result.ok]_vars

C12_FailedSaveKeepsDraft ==
  /\ last.op = "handleSaveEdit"
  /\ ~last.result.ok
  /\ NonEmptyText(errorMessage)
  /\ \E k \in Rows : editingTodoId = <<todos[k]._id>>
  /\ editingData.title # <<>>

====
